---- MODULE Spec2Model ----
(***************************************************************************)
(* Lineage core of vscode-bigquery: extractTableReferences,                *)
(* extractCtesWithDependencies, extractCtes, extractLineage,               *)
(* extractTargetTables, calculateCteLayers and buildLineageGraph.          *)
(*                                                                         *)
(* A statement is kept in two forms that describe the same SQL text: its   *)
(* structure (what the two parser collaborators hand to the code) and its  *)
(* token sequence (what the code's regular expressions scan).              *)
(* A qualified name is the tuple of its dot-separated parts.               *)
(***************************************************************************)
EXTENDS Integers, Sequences, FiniteSets, TLC

(***************************************************************************)
(* Bounds of the statements that are analysed.                             *)
(***************************************************************************)
MaxCtes == 2
MaxRefs == 2
MaxChain == 3
MaxWrites == 2
MaxCalls == 3

(***************************************************************************)
(* Generic sequence helpers.                                               *)
(***************************************************************************)
Range(s) == {s[i] : i \in DOMAIN s}

Includes(s, x) == \E i \in DOMAIN s : s[i] = x

RECURSIVE Concat(_)
Concat(ss) == IF ss = <<>> THEN <<>> ELSE Head(ss) \o Concat(Tail(ss))

RECURSIVE PushUnique(_, _)
\* repeated "if (!tables.includes(name)) tables.push(name)", also [...new Set(xs)]
PushUnique(acc, xs) ==
    IF xs = <<>> THEN acc
    ELSE PushUnique(IF Includes(acc, Head(xs)) THEN acc ELSE Append(acc, Head(xs)), Tail(xs))

RECURSIVE SetToSeq(_)
SetToSeq(S) == IF S = {} THEN <<>> ELSE LET x == CHOOSE y \in S : TRUE IN <<x>> \o SetToSeq(S \ {x})

SeqsUpTo(S, n) == UNION {[1..k -> S] : k \in 0..n}

MinOf(S) == CHOOSE m \in S : \A x \in S : m <= x

MaxOf(S) == CHOOSE m \in S : \A x \in S : x <= m

(***************************************************************************)
(* Names and String.prototype.toLowerCase on the letters that are used.    *)
(***************************************************************************)
LowerMap == [T |-> "t", C |-> "c", K |-> "k", U |-> "u", D |-> "d"]

LowerPart(p) == IF p \in DOMAIN LowerMap THEN LowerMap[p] ELSE p

toLowerCase(n) == [i \in DOMAIN n |-> LowerPart(n[i])]

TableNames == {<<"t">>, <<"T">>}
CteNames == {<<"c">>, <<"C">>, <<"k">>}
RefPool == {<<"t">>, <<"T">>, <<"c">>, <<"k">>}
MainFroms == {<<>>, << <<"t">> >>, << <<"c">> >>}
WriteLists == {<<>>,
               << [tableName |-> <<"t">>, statementType |-> "INSERT"] >>,
               << [tableName |-> <<"c">>, statementType |-> "INSERT"] >>}

Bodies == {SetToSeq(S) : S \in {R \in SUBSET RefPool : Cardinality(R) <= MaxRefs}}

CteTexts == [name : CteNames, body : Bodies]

Statements ==
    {s \in [ctes : SeqsUpTo(CteTexts, MaxCtes), mainFrom : MainFroms,
            writes : WriteLists, withFirst : BOOLEAN, where : {<<>>}] :
        s.withFirst => (s.ctes # <<>> /\ s.writes # <<>>)}

\* statements whose CTEs refer to each other: chains, cycles, self-references
ChainNames == {<<"c">>, <<"k">>, <<"u">>}

ChainBodies == {SetToSeq(S) : S \in {R \in SUBSET ChainNames : Cardinality(R) <= MaxRefs}}

ChainStatements ==
    [ctes : SeqsUpTo([name : ChainNames, body : ChainBodies], MaxChain), mainFrom : {<<>>},
     writes : {<<>>}, withFirst : {FALSE}, where : {<<>>}]

\* scripts of writing statements without CTEs; the last statement may compare
\* a column with the string literal ') SELECT '
StatementTypes == {"INSERT", "CREATE TABLE", "CREATE VIEW", "MERGE", "UPDATE", "DELETE", "TRUNCATE"}

WhereLiteral ==
    << [k |-> "kw", v |-> <<"WHERE">>], [k |-> "kw", v |-> <<"note">>], [k |-> "kw", v |-> <<"=">>],
       [k |-> "kw", v |-> <<"'">>], [k |-> "kw", v |-> <<")">>], [k |-> "kw", v |-> <<"SELECT">>],
       [k |-> "kw", v |-> <<"'">>] >>

WriteStatements ==
    [ctes : {<<>>}, mainFrom : {<<>>, << <<"s">> >>, << <<"t">> >>},
     writes : SeqsUpTo([tableName : TableNames, statementType : StatementTypes], MaxWrites),
     withFirst : {FALSE}, where : {<<>>, WhereLiteral}]

\* statements with dataset-qualified table names
QualifiedBodies == {<<>>, << <<"d", "t">> >>, << <<"t">> >>}

QualifiedFroms == {<<>>, << <<"c">> >>, << <<"u", "t">> >>, << <<"c">>, <<"u", "t">> >>, << <<"d", "t">> >>}

QualifiedWrites == {<<>>,
                    << [tableName |-> <<"u", "t">>, statementType |-> "INSERT"] >>,
                    << [tableName |-> <<"u", "x">>, statementType |-> "INSERT"] >>}

QualifiedStatements ==
    {s \in [ctes : SeqsUpTo([name : {<<"c">>, <<"k">>}, body : QualifiedBodies], 1),
            mainFrom : QualifiedFroms, writes : QualifiedWrites, withFirst : BOOLEAN, where : {<<>>}] :
        s.withFirst => (s.ctes # <<>> /\ s.writes # <<>>)}

\* statements whose CTEs read two tables and each other, with up to two writes
LayoutBodies ==
    {SetToSeq(S) : S \in {R \in SUBSET {<<"s">>, <<"t">>, <<"c">>, <<"k">>} : Cardinality(R) <= MaxRefs}}

LayoutWrites == {<<>>,
                 << [tableName |-> <<"x">>, statementType |-> "INSERT"] >>,
                 << [tableName |-> <<"x">>, statementType |-> "INSERT"],
                    [tableName |-> <<"d">>, statementType |-> "INSERT"] >>}

LayoutStatements ==
    [ctes : SeqsUpTo([name : {<<"c">>, <<"k">>}, body : LayoutBodies], MaxCtes),
     mainFrom : {<<>>, << <<"c">> >>, << <<"t">> >>},
     writes : LayoutWrites, withFirst : {FALSE}, where : {<<>>}]

(***************************************************************************)
(* The SQL text as the token sequence the regular expressions scan.        *)
(* The text is either  <writes> WITH <ctes> SELECT ... FROM <mainFrom>     *)
(* or, with withFirst,  WITH <ctes> <writes> SELECT ... FROM <mainFrom>.   *)
(***************************************************************************)
Kw(w) == [k |-> "kw", v |-> <<w>>]

Id(n) == [k |-> "id", v |-> n]

Kws(ws) == [i \in DOMAIN ws |-> Kw(ws[i])]

RECURSIVE CommaList(_)
CommaList(names) ==
    IF names = <<>> THEN <<>>
    ELSE IF Len(names) = 1 THEN <<Id(names[1])>>
    ELSE <<Id(names[1]), Kw(",")>> \o CommaList(Tail(names))

SelectText(refs) ==
    IF refs = <<>> THEN Kws(<<"SELECT", "1">>)
    ELSE Kws(<<"SELECT", "*", "FROM">>) \o CommaList(refs)

CteText(c) == <<Id(c.name)>> \o Kws(<<"AS", "(">>) \o SelectText(c.body) \o Kws(<<")">>)

RECURSIVE CteListText(_)
CteListText(cs) ==
    IF cs = <<>> THEN <<>>
    ELSE IF Len(cs) = 1 THEN CteText(cs[1])
    ELSE CteText(cs[1]) \o Kws(<<",">>) \o CteListText(Tail(cs))

WithText(cs) == IF cs = <<>> THEN <<>> ELSE Kws(<<"WITH">>) \o CteListText(cs)

WriteText(w) ==
    CASE w.statementType = "INSERT" -> Kws(<<"INSERT", "INTO">>) \o <<Id(w.tableName)>>
      [] w.statementType = "CREATE TABLE" ->
            Kws(<<"CREATE", "TABLE">>) \o <<Id(w.tableName)>> \o Kws(<<"AS">>)
      [] w.statementType = "CREATE VIEW" ->
            Kws(<<"CREATE", "VIEW">>) \o <<Id(w.tableName)>> \o Kws(<<"AS">>)
      [] w.statementType = "MERGE" -> Kws(<<"MERGE", "INTO">>) \o <<Id(w.tableName)>>
      [] w.statementType = "UPDATE" -> Kws(<<"UPDATE">>) \o <<Id(w.tableName)>> \o Kws(<<"SET">>)
      [] w.statementType = "DELETE" -> Kws(<<"DELETE", "FROM">>) \o <<Id(w.tableName)>>
      [] w.statementType = "TRUNCATE" -> Kws(<<"TRUNCATE", "TABLE">>) \o <<Id(w.tableName)>>

\* the writing statements of a script, separated by semicolons
WritesText(ws) ==
    Concat([i \in DOMAIN ws |-> IF i < Len(ws) THEN WriteText(ws[i]) \o Kws(<<";">>) ELSE WriteText(ws[i])])

SqlText(s) ==
    IF s.withFirst
    THEN WithText(s.ctes) \o WritesText(s.writes) \o SelectText(s.mainFrom) \o s.where
    ELSE WritesText(s.writes) \o WithText(s.ctes) \o SelectText(s.mainFrom) \o s.where

(***************************************************************************)
(* sqlTableExtractor.ts.  The CST parser either accepts the text (ok) and  *)
(* hands over the statement's from-clauses and common_table_expr nodes in  *)
(* document order, or throws.                                              *)
(***************************************************************************)
FromClauses(s) == [i \in DOMAIN s.ctes |-> s.ctes[i].body] \o <<s.mainFrom>>

\* findTablesInExpr over the items of one from-clause, appended to tables
findTablesInExpr(refs, tables) == PushUnique(tables, refs)

RECURSIVE VisitFromClauses(_, _)
VisitFromClauses(clauses, tables) ==
    IF clauses = <<>> THEN tables
    ELSE VisitFromClauses(Tail(clauses), findTablesInExpr(Head(clauses), tables))

extractTableReferences(s, ok) ==
    IF ~ok THEN <<>> ELSE VisitFromClauses(FromClauses(s), <<>>)

CollectNoNames(s) == {}

CollectCteNames(s) == {toLowerCase(s.ctes[i].name) : i \in DOMAIN s.ctes}

IsCteRef(table, cteNames) == toLowerCase(table) \in cteNames

ExtractedCte(c, cteNames) ==
    LET tables == findTablesInExpr(c.body, <<>>)
        InSet(t) == IsCteRef(t, cteNames)
        NotInSet(t) == ~IsCteRef(t, cteNames)
    IN [name |-> c.name,
        sourceTables |-> PushUnique(<<>>, SelectSeq(tables, NotInSet)),
        referencedCtes |-> PushUnique(<<>>, SelectSeq(tables, InSet))]

extractCtesWithDependencies(s, ok) ==
    IF ~ok THEN <<>>
    ELSE [i \in DOMAIN s.ctes |-> ExtractedCte(s.ctes[i], CollectCteNames(s))]

(***************************************************************************)
(* cteExtractor.ts.  The legacy parser's tree has one QueryWith block with *)
(* a TableCteId and a Query (holding TableIdentifier items) per CTE.       *)
(***************************************************************************)
findAllCteNames(s) == {toLowerCase(s.ctes[i].name) : i \in DOMAIN s.ctes}

extractDependenciesOfAll(queryItem, knownCteNames, s, ok) ==
    LET InSet(t) == toLowerCase(t) \in knownCteNames
        NotInSet(t) == ~(toLowerCase(t) \in knownCteNames)
        found == VisitFromClauses(FromClauses(s), <<>>) \o queryItem
    IN [sourceTables |-> PushUnique(<<>>, SelectSeq(found, NotInSet)),
        referencedCtes |-> PushUnique(<<>>, SelectSeq(found, InSet))]

extractDependencies(queryItem, knownCteNames, s, ok) ==
    LET allTables == extractTableReferences(s, ok)
        InSet(t) == toLowerCase(t) \in knownCteNames
        NotInSet(t) == ~(toLowerCase(t) \in knownCteNames)
        found == allTables \o queryItem
    IN [sourceTables |-> PushUnique(<<>>, SelectSeq(found, NotInSet)),
        referencedCtes |-> PushUnique(<<>>, SelectSeq(found, InSet))]

parseCteBlock(s, knownCteNames, ok) ==
    [i \in DOMAIN s.ctes |->
        LET deps == extractDependencies(s.ctes[i].body, knownCteNames, s, ok)
        IN [name |-> s.ctes[i].name,
            sourceTables |-> PushUnique(<<>>, deps.sourceTables),
            referencedCtes |-> PushUnique(<<>>, deps.referencedCtes)]]

\* if (cstCtes.length > 0) return cstCtes; otherwise the legacy parser's CTEs
CstOrLegacyCtes(cstCtes, s, ok) ==
    IF Len(cstCtes) > 0 THEN cstCtes ELSE parseCteBlock(s, findAllCteNames(s), ok)

\* the result of extractCtes when no parser throws out of it
extractCtes(s, ok) == CstOrLegacyCtes(extractCtesWithDependencies(s, ok), s, ok)

\* extractCtes reaches the legacy parser, whose call is not guarded
CallsLegacyParser(s, ok) == Len(extractCtesWithDependencies(s, ok)) = 0

(***************************************************************************)
(* lineageService.ts: the target detector scans the text, one regular      *)
(* expression per statement type, each over the whole text from the left.  *)
(***************************************************************************)
IsKw(toks, i, w) == i <= Len(toks) /\ toks[i] = Kw(w)

IsTableName(toks, i) == i <= Len(toks) /\ toks[i].k = "id"

\* an optional group (?: ... )? of keywords at position i: the position after it
SkipOpt(toks, i, ws) ==
    IF \A j \in DOMAIN ws : IsKw(toks, i + j - 1, ws[j]) THEN i + Len(ws) ELSE i

\* the position of the table name captured by the pattern of a statement
\* type when it matches at position i, and 0 when it does not match there
insertPattern(toks, i) ==
    IF ~IsKw(toks, i, "INSERT") THEN 0
    ELSE LET j == SkipOpt(toks, i + 1, <<"INTO">>) IN IF IsTableName(toks, j) THEN j ELSE 0

createPattern(toks, i) ==
    IF ~IsKw(toks, i, "CREATE") THEN 0
    ELSE LET a == SkipOpt(toks, i + 1, <<"OR", "REPLACE">>)
             b == IF IsKw(toks, a, "TEMP") \/ IsKw(toks, a, "TEMPORARY") THEN a + 1 ELSE a
             c == SkipOpt(toks, b + 1, <<"IF", "NOT", "EXISTS">>)
         IN IF IsKw(toks, b, "TABLE") /\ IsTableName(toks, c) THEN c ELSE 0

createViewPattern(toks, i) ==
    IF ~IsKw(toks, i, "CREATE") THEN 0
    ELSE LET a == SkipOpt(toks, i + 1, <<"OR", "REPLACE">>)
             b == SkipOpt(toks, a, <<"MATERIALIZED">>)
             c == SkipOpt(toks, b + 1, <<"IF", "NOT", "EXISTS">>)
         IN IF IsKw(toks, b, "VIEW") /\ IsTableName(toks, c) THEN c ELSE 0

mergePattern(toks, i) ==
    IF ~IsKw(toks, i, "MERGE") THEN 0
    ELSE LET j == SkipOpt(toks, i + 1, <<"INTO">>) IN IF IsTableName(toks, j) THEN j ELSE 0

updatePattern(toks, i) ==
    IF ~(IsKw(toks, i, "UPDATE") /\ IsTableName(toks, i + 1)) THEN 0
    ELSE LET j == IF IsKw(toks, i + 2, "AS") /\ IsTableName(toks, i + 3) THEN i + 4 ELSE i + 2
         IN IF IsKw(toks, j, "SET") THEN i + 1 ELSE 0

deletePattern(toks, i) ==
    IF ~IsKw(toks, i, "DELETE") THEN 0
    ELSE LET j == SkipOpt(toks, i + 1, <<"FROM">>) IN IF IsTableName(toks, j) THEN j ELSE 0

truncatePattern(toks, i) ==
    IF IsKw(toks, i, "TRUNCATE") /\ IsKw(toks, i + 1, "TABLE") /\ IsTableName(toks, i + 2)
    THEN i + 2 ELSE 0

patternsDeleteFirst == <<"DELETE", "INSERT", "CREATE TABLE", "CREATE VIEW", "MERGE", "UPDATE", "TRUNCATE">>

patterns == <<"INSERT", "CREATE TABLE", "CREATE VIEW", "MERGE", "UPDATE", "DELETE", "TRUNCATE">>

PatternExec(type, toks, i) ==
    CASE type = "INSERT" -> insertPattern(toks, i)
      [] type = "CREATE TABLE" -> createPattern(toks, i)
      [] type = "CREATE VIEW" -> createViewPattern(toks, i)
      [] type = "MERGE" -> mergePattern(toks, i)
      [] type = "UPDATE" -> updatePattern(toks, i)
      [] type = "DELETE" -> deletePattern(toks, i)
      [] type = "TRUNCATE" -> truncatePattern(toks, i)

RECURSIVE MatchesFrom(_, _, _)
\* results.push({tableName, statementType}) for the match whose name is at j,
\* then the matches after it
PushMatch(type, toks, i, j) ==
    IF j = 0 THEN MatchesFrom(type, toks, i + 1)
    ELSE <<[tableName |-> toks[j].v, statementType |-> type]>> \o MatchesFrom(type, toks, j + 1)

\* while ((match = pattern.exec(sql)) !== null) results.push(...)
MatchesFrom(type, toks, i) ==
    IF i > Len(toks) THEN <<>> ELSE PushMatch(type, toks, i, PatternExec(type, toks, i))

extractTargetTables(toks) ==
    Concat([p \in DOMAIN patterns |-> MatchesFrom(patterns[p], toks, 1)])

parseTableName(fullName, role) ==
    LET n == Len(fullName)
    IN [fullName |-> fullName,
        projectId |-> IF n = 3 THEN fullName[1] ELSE "",
        datasetId |-> IF n = 3 THEN fullName[2] ELSE IF n = 2 THEN fullName[1] ELSE "",
        tableId |-> IF n = 3 THEN fullName[3] ELSE IF n = 2 THEN fullName[2] ELSE fullName[1],
        role |-> role,
        statementType |-> ""]

RECURSIVE SourcesOf(_, _, _)
SourcesOf(tableNames, seenSources, sources) ==
    IF tableNames = <<>> THEN sources
    ELSE LET tableName == Head(tableNames)
         IN IF toLowerCase(tableName) \in seenSources
            THEN SourcesOf(Tail(tableNames), seenSources, sources)
            ELSE SourcesOf(Tail(tableNames), seenSources \cup {toLowerCase(tableName)},
                           Append(sources, parseTableName(tableName, "source")))

RECURSIVE TargetsOf(_, _, _)
TargetsOf(targetMatches, seenTargets, targets) ==
    IF targetMatches = <<>> THEN targets
    ELSE LET match == Head(targetMatches)
             normalizedName == toLowerCase(match.tableName)
         IN IF normalizedName \in seenTargets
            THEN TargetsOf(Tail(targetMatches), seenTargets, targets)
            ELSE TargetsOf(Tail(targetMatches), seenTargets \cup {normalizedName},
                           Append(targets, [parseTableName(match.tableName, "target")
                                              EXCEPT !.statementType = match.statementType]))

KeepSources(sources, seenTargets) == sources

FilterSources(sources, seenTargets) ==
    LET Keep(src) == ~(toLowerCase(src.fullName) \in seenTargets)
    IN SelectSeq(sources, Keep)

SeenTargets(targets) == {toLowerCase(targets[i].fullName) : i \in DOMAIN targets}

LineageData(sources, targets) ==
    [sources |-> FilterSources(sources, SeenTargets(targets)), targets |-> targets]

\* the sources and targets of the LineageData (its queryPreview is display text)
extractLineage(s, ok) ==
    LineageData(SourcesOf(extractTableReferences(s, ok), {}, <<>>),
                TargetsOf(extractTargetTables(SqlText(s)), {}, <<>>))

(***************************************************************************)
(* lineageGraph.ts: calculateCteLayers.  layers is the Map from lower-case *)
(* CTE name to layer, a function on the names set so far.                  *)
(***************************************************************************)
MapSet(m, key, val) == [x \in (DOMAIN m) \cup {key} |-> IF x = key THEN val ELSE m[x]]

EmptyMap == [x \in {} |-> 0]

NamesOf(ctes) == {toLowerCase(ctes[i].name) : i \in DOMAIN ctes}

CteRefs(cte, cteNames) ==
    {toLowerCase(cte.referencedCtes[j]) : j \in DOMAIN cte.referencedCtes} \cap cteNames

RECURSIVE InitLayers(_, _, _)
InitLayers(ctes, cteNames, layers) ==
    IF ctes = <<>> THEN layers
    ELSE InitLayers(Tail(ctes), cteNames,
                    IF CteRefs(Head(ctes), cteNames) = {} THEN MapSet(layers, toLowerCase(Head(ctes).name), 1)
                    ELSE layers)

AssignSkip(refLayers) == (IF refLayers # {} THEN MaxOf(refLayers) ELSE 0) + 2

AssignFlat(refLayers) == IF refLayers # {} THEN MaxOf(refLayers) ELSE 0

\* maxRefLayer + 1
AssignLayer(refLayers) == (IF refLayers # {} THEN MaxOf(refLayers) ELSE 0) + 1

RECURSIVE LayerPass(_, _, _, _)
\* the body of the for loop for one CTE that has no layer yet, then the rest
LayerStep(ctes, cteNames, layers, changed, cteName, refs) ==
    IF refs \subseteq DOMAIN layers
    THEN LayerPass(Tail(ctes), cteNames,
                   MapSet(layers, cteName, AssignLayer({layers[r] : r \in refs})), TRUE)
    ELSE LayerPass(Tail(ctes), cteNames, layers, changed)

\* one round of the for loop inside the while loop: <<layers, changed>>
LayerPass(ctes, cteNames, layers, changed) ==
    IF ctes = <<>> THEN <<layers, changed>>
    ELSE IF toLowerCase(Head(ctes).name) \in DOMAIN layers
    THEN LayerPass(Tail(ctes), cteNames, layers, changed)
    ELSE LayerStep(ctes, cteNames, layers, changed,
                   toLowerCase(Head(ctes).name), CteRefs(Head(ctes), cteNames))

RECURSIVE LayerLoop(_, _, _, _, _)
NextRoundStops(ctes, cteNames, r, iterations) == <<r[1], iterations + 1>>

NextRound(ctes, cteNames, r, iterations) == LayerLoop(ctes, cteNames, r[1], r[2], iterations + 1)

maxIterationsLess(ctes) == Len(ctes) - 2

\* const maxIterations = ctes.length + 1
maxIterations(ctes) == Len(ctes) + 1

\* the while loop: <<layers, iterations>> when it stops
LayerLoop(ctes, cteNames, layers, changed, iterations) ==
    IF changed /\ iterations < maxIterations(ctes)
    THEN NextRound(ctes, cteNames, LayerPass(ctes, cteNames, layers, FALSE), iterations)
    ELSE <<layers, iterations>>

LeaveRemaining(ctes, layers) == layers

\* any remaining CTEs (circular dependencies) get layer 1
ForceRemaining(ctes, layers) ==
    [n \in (DOMAIN layers) \cup NamesOf(ctes) |-> IF n \in DOMAIN layers THEN layers[n] ELSE 1]

\* layers and iterations where the while loop stops
LoopExit(ctes, cteNames) ==
    LayerLoop(ctes, cteNames, InitLayers(ctes, cteNames, EmptyMap), TRUE, 0)

LayersOver(ctes, cteNames) == ForceRemaining(ctes, LoopExit(ctes, cteNames)[1])

calculateCteLayers(ctes) == LayersOver(ctes, NamesOf(ctes))

(***************************************************************************)
(* lineageGraph.ts: the main-query scans.                                  *)
(***************************************************************************)
MainKeywords == {"SELECT", "INSERT", "UPDATE", "DELETE", "MERGE"}

MinOrZero(S) == IF S = {} THEN 0 ELSE CHOOSE i \in S : \A j \in S : i <= j

\* sql.match(/\)\s*(SELECT|INSERT|UPDATE|DELETE|MERGE)\s/i): the position of
\* the leftmost match, 0 when there is none
MainQueryMatch(toks) ==
    MinOrZero({i \in 1..(Len(toks) - 2) : toks[i] = Kw(")") /\ \E w \in MainKeywords : toks[i + 1] = Kw(w)})

\* new RegExp(`\\b${escapeRegex(word)}\\b`, 'i').test(text): the parts of word
\* occur as consecutive parts of a name of the text
RegexTestWord(word, toks) ==
    \E i \in DOMAIN toks :
        /\ toks[i].k = "id"
        /\ \E o \in 0..(Len(toks[i].v) - Len(word)) :
              \A j \in DOMAIN word : LowerPart(toks[i].v[o + j]) = LowerPart(word[j])

\* return referenced.length > 0 ? referenced : cteNames
ReferencedOrAll(referenced, cteNames) == IF Len(referenced) > 0 THEN referenced ELSE cteNames

MentionedCtes(cteNames, mainQuery) ==
    LET Mentioned(n) == RegexTestWord(n, mainQuery) IN SelectSeq(cteNames, Mentioned)

CteReferencesAt(toks, cteNames, at) ==
    IF at = 0 THEN cteNames
    ELSE ReferencedOrAll(MentionedCtes(cteNames, SubSeq(toks, at, Len(toks))), cteNames)

findMainQueryCteReferences(toks, ctes) ==
    CteReferencesAt(toks, [i \in DOMAIN ctes |-> toLowerCase(ctes[i].name)], MainQueryMatch(toks))

getDisplayName(fullName) == fullName[Len(fullName)]

MentionedSources(allSourceTables, cteNames, mainQuery) ==
    LET Mentioned(t) == ~(t \in cteNames) /\ RegexTestWord(<<getDisplayName(t)>>, mainQuery)
    IN SelectSeq(allSourceTables, Mentioned)

SourceReferencesAt(toks, allSourceTables, cteNames, at) ==
    MentionedSources(allSourceTables, cteNames, IF at # 0 THEN SubSeq(toks, at, Len(toks)) ELSE toks)

findMainQuerySourceReferences(toks, allSourceTables, cteNames) ==
    SourceReferencesAt(toks, allSourceTables, cteNames, MainQueryMatch(toks))

(***************************************************************************)
(* lineageGraph.ts: buildLineageGraph.  A node id `kind_name` is the pair  *)
(* <<kind, name>>, an edge id `edge_source_target` the pair of node ids.   *)
(* nodeMap is the Map from lower-case name to the node last set for it.    *)
(***************************************************************************)
LowerAll(names) == [i \in DOMAIN names |-> toLowerCase(names[i])]

AllSourceTables(ctes, basicLineage) ==
    PushUnique(PushUnique(<<>>, [i \in DOMAIN basicLineage.sources |->
                                    toLowerCase(basicLineage.sources[i].fullName)]),
               Concat([i \in DOMAIN ctes |-> LowerAll(ctes[i].sourceTables)]))

SourceNodeFirst(tableName) ==
    [id |-> <<"source", tableName>>, name |-> getDisplayName(tableName), fullName |-> tableName,
     nodeType |-> "SOURCE", statementType |-> "", layer |-> 1]

SourceNode(tableName) ==
    [id |-> <<"source", tableName>>, name |-> getDisplayName(tableName), fullName |-> tableName,
     nodeType |-> "SOURCE", statementType |-> "", layer |-> 0]

CteNode(cte, cteLayers) ==
    [id |-> <<"cte", toLowerCase(cte.name)>>, name |-> cte.name[1], fullName |-> cte.name,
     nodeType |-> "CTE", statementType |-> "",
     layer |-> IF toLowerCase(cte.name) \in DOMAIN cteLayers /\ cteLayers[toLowerCase(cte.name)] # 0
               THEN cteLayers[toLowerCase(cte.name)] ELSE 1]

TargetLayerFlat(cteLayers) == MaxOf({0} \cup {cteLayers[n] : n \in DOMAIN cteLayers})

\* maxCteLayer + 1
TargetLayer(cteLayers) == MaxOf({0} \cup {cteLayers[n] : n \in DOMAIN cteLayers}) + 1

TargetNodeFirst(target, targetLayer) ==
    [id |-> <<"target", toLowerCase(target.fullName)>>, name |-> getDisplayName(target.fullName),
     fullName |-> target.fullName, nodeType |-> "TARGET",
     statementType |-> target.statementType, layer |-> 1]

TargetNode(target, targetLayer) ==
    [id |-> <<"target", toLowerCase(target.fullName)>>, name |-> getDisplayName(target.fullName),
     fullName |-> target.fullName, nodeType |-> "TARGET",
     statementType |-> target.statementType, layer |-> targetLayer]

RECURSIVE AddNodes(_, _)
\* nodes.push(node); nodeMap.set(key, node) for each new node in turn, where
\* the key is the lower-case name the node's id is made of; g is <<nodes, nodeMap>>
AddNodes(newNodes, g) ==
    IF newNodes = <<>> THEN g
    ELSE AddNodes(Tail(newNodes),
                  <<Append(g[1], Head(newNodes)), MapSet(g[2], Head(newNodes).id[2], Head(newNodes))>>)

SourceNodes(sourceNames) == [i \in DOMAIN sourceNames |-> SourceNode(sourceNames[i])]

CteNodes(ctes, cteLayers) == [i \in DOMAIN ctes |-> CteNode(ctes[i], cteLayers)]

TargetNodes(targets, targetLayer) == [i \in DOMAIN targets |-> TargetNode(targets[i], targetLayer)]

NotCteNames(allSourceTables, cteNames) ==
    LET NotCte(t) == ~(t \in cteNames) IN SelectSeq(allSourceTables, NotCte)

KeepAllTargets(targets, cteNames) == targets

NotCteTargets(targets, cteNames) ==
    LET TargetNotCte(t) == ~(toLowerCase(t.fullName) \in cteNames) IN SelectSeq(targets, TargetNotCte)

NodesWithLayers(ctes, basicLineage, cteNames, cteLayers) ==
    AddNodes(TargetNodes(NotCteTargets(basicLineage.targets, cteNames), TargetLayer(cteLayers)),
             AddNodes(CteNodes(ctes, cteLayers),
                      AddNodes(SourceNodes(NotCteNames(AllSourceTables(ctes, basicLineage), cteNames)),
                               <<<<>>, EmptyMap>>)))

\* steps 1 to 3: <<nodes, nodeMap>>
BuildNodes(ctes, basicLineage) ==
    NodesWithLayers(ctes, basicLineage, NamesOf(ctes), calculateCteLayers(ctes))

EdgeFromSource(sourceNode, targetNode) ==
    [id |-> <<<<"source", sourceNode.id[2]>>, targetNode.id>>, source |-> <<"source", sourceNode.id[2]>>,
     target |-> targetNode.id]

Edge(sourceNode, targetNode) ==
    [id |-> <<sourceNode.id, targetNode.id>>, source |-> sourceNode.id, target |-> targetNode.id]

EdgesOfKnown(known, nodeMap, toNode) ==
    [i \in DOMAIN known |-> Edge(nodeMap[toLowerCase(known[i])], toNode)]

\* one edge to toNode from the node of each name that has a node
EdgesFrom(names, nodeMap, toNode) ==
    LET Known(n) == toLowerCase(n) \in DOMAIN nodeMap
    IN EdgesOfKnown(SelectSeq(names, Known), nodeMap, toNode)

EdgesIntoCte(cte, nodeMap, cteNode) ==
    EdgesFrom(cte.sourceTables, nodeMap, cteNode) \o EdgesFrom(cte.referencedCtes, nodeMap, cteNode)

CteEdges(ctes, nodeMap) ==
    Concat([i \in DOMAIN ctes |->
        IF ~(toLowerCase(ctes[i].name) \in DOMAIN nodeMap) THEN <<>>
        ELSE EdgesIntoCte(ctes[i], nodeMap, nodeMap[toLowerCase(ctes[i].name)])])

EdgesIntoTargetNoFallback(mainQueryCtes, mainQuerySources, allSources, noCtes, nodeMap, targetNode) ==
    EdgesFrom(mainQueryCtes, nodeMap, targetNode) \o EdgesFrom(mainQuerySources, nodeMap, targetNode)

EdgesIntoTarget(mainQueryCtes, mainQuerySources, allSources, noCtes, nodeMap, targetNode) ==
    EdgesFrom(mainQueryCtes, nodeMap, targetNode)
    \o EdgesFrom(mainQuerySources, nodeMap, targetNode)
    \o (IF Len(mainQueryCtes) = 0 /\ Len(mainQuerySources) = 0 /\ noCtes
        THEN EdgesFrom(allSources, nodeMap, targetNode) ELSE <<>>)

TargetEdgesWith(targets, mainQueryCtes, mainQuerySources, allSources, noCtes, nodeMap) ==
    Concat([t \in DOMAIN targets |->
        IF ~(toLowerCase(targets[t].fullName) \in DOMAIN nodeMap) THEN <<>>
        ELSE EdgesIntoTarget(mainQueryCtes, mainQuerySources, allSources, noCtes, nodeMap,
                             nodeMap[toLowerCase(targets[t].fullName)])])

TargetEdges(toks, ctes, basicLineage, nodeMap) ==
    IF Len(basicLineage.targets) = 0 THEN <<>>
    ELSE TargetEdgesWith(
            basicLineage.targets,
            IF Len(ctes) > 0 THEN findMainQueryCteReferences(toks, ctes) ELSE <<>>,
            findMainQuerySourceReferences(toks, AllSourceTables(ctes, basicLineage), NamesOf(ctes)),
            [i \in DOMAIN basicLineage.sources |-> basicLineage.sources[i].fullName],
            Len(ctes) = 0,
            nodeMap)

GraphOver(toks, ctes, basicLineage, g) ==
    [nodes |-> g[1], edges |-> CteEdges(ctes, g[2]) \o TargetEdges(toks, ctes, basicLineage, g[2])]

buildLineageGraph(toks, ctes, basicLineage) ==
    GraphOver(toks, ctes, basicLineage, BuildNodes(ctes, basicLineage))

(***************************************************************************)
(* dagLayout: calculateLayout places the nodes of a graph.  A node object  *)
(* is named by its index in graph.nodes; a layer's array holds indexes.    *)
(* A barycenter is the pair <<sum, count>> that stands for sum / count,    *)
(* and Infinity is the pair with count 0.                                  *)
(***************************************************************************)
DEFAULT_CONFIG ==
    [nodeWidth |-> 160, nodeHeight |-> 50, layerSpacing |-> 220, nodeSpacing |-> 70,
     paddingX |-> 40, paddingY |-> 40]

\* the order String.prototype.localeCompare puts the display names in:
\* by letter, the lower-case form of a letter first
LocaleOrder == <<"c", "C", "d", "k", "s", "t", "T", "u", "x">>

LocaleIndex(name) == CHOOSE i \in DOMAIN LocaleOrder : LocaleOrder[i] = name

localeCompare(a, b) == LocaleIndex(a) - LocaleIndex(b)

NodesOfLayer(nodes, l) ==
    LET InLayer(i) == nodes[i].layer = l IN SelectSeq([i \in DOMAIN nodes |-> i], InLayer)

groupNodesByLayer(nodes) ==
    [l \in {nodes[i].layer : i \in DOMAIN nodes} |-> NodesOfLayer(nodes, l)]

RECURSIVE InsertInOrder(_, _, _)
\* the place of e in an array already in order: after every element that
\* does not compare greater (Array.prototype.sort is stable)
InsertInOrder(sorted, e, compareFn) ==
    IF sorted = <<>> THEN <<e>>
    ELSE IF compareFn[<<sorted[Len(sorted)], e>>] <= 0 THEN Append(sorted, e)
    ELSE Append(InsertInOrder(SubSeq(sorted, 1, Len(sorted) - 1), e, compareFn), sorted[Len(sorted)])

RECURSIVE sort(_, _)
sort(array, compareFn) ==
    IF array = <<>> THEN <<>>
    ELSE InsertInOrder(sort(SubSeq(array, 1, Len(array) - 1), compareFn), array[Len(array)], compareFn)

\* prevPositions.set(node.id, i) for each node of the previous layer in turn
PrevPositions(prevLayerNodes, nodes) ==
    [id \in {nodes[prevLayerNodes[i]].id : i \in DOMAIN prevLayerNodes} |->
        (CHOOSE i \in DOMAIN prevLayerNodes :
            /\ nodes[prevLayerNodes[i]].id = id
            /\ \A j \in DOMAIN prevLayerNodes : nodes[prevLayerNodes[j]].id = id => j <= i) - 1]

Infinity == <<1, 0>>

RECURSIVE SumOfPositions(_, _)
SumOfPositions(counted, prevPositions) ==
    IF counted = <<>> THEN 0
    ELSE prevPositions[Head(counted).source] + SumOfPositions(Tail(counted), prevPositions)

BarycenterOf(incomingEdges, counted, prevPositions) ==
    IF incomingEdges = <<>> THEN Infinity
    ELSE IF Len(counted) > 0 THEN <<SumOfPositions(counted, prevPositions), Len(counted)>>
    ELSE Infinity

IncomingEdges(id, edges) ==
    LET Into(e) == e.target = id IN SelectSeq(edges, Into)

FromPrevLayer(incomingEdges, prevPositions) ==
    LET Known(e) == e.source \in DOMAIN prevPositions IN SelectSeq(incomingEdges, Known)

BarycenterAllInfinity(id, edges, prevPositions) == Infinity

Barycenter(id, edges, prevPositions) ==
    BarycenterOf(IncomingEdges(id, edges),
                 FromPrevLayer(IncomingEdges(id, edges), prevPositions), prevPositions)

Barycenters(layerNodes, nodes, edges, prevPositions) ==
    [id \in {nodes[layerNodes[i]].id : i \in DOMAIN layerNodes} |-> Barycenter(id, edges, prevPositions)]

\* bcA !== bcB
DifferentNumbers(bcA, bcB) ==
    IF bcA[2] = 0 \/ bcB[2] = 0 THEN bcA[2] # bcB[2] ELSE bcA[1] * bcB[2] # bcB[1] * bcA[2]

\* the sign of bcA - bcB for different numbers
Difference(bcA, bcB) ==
    IF bcA[2] = 0 THEN 1 ELSE IF bcB[2] = 0 THEN 0 - 1 ELSE bcA[1] * bcB[2] - bcB[1] * bcA[2]

CompareByName(layerNodes, nodes) ==
    [p \in Range(layerNodes) \X Range(layerNodes) |-> localeCompare(nodes[p[1]].name, nodes[p[2]].name)]

CompareByBarycenter(layerNodes, nodes, barycenters) ==
    [p \in Range(layerNodes) \X Range(layerNodes) |->
        IF DifferentNumbers(barycenters[nodes[p[1]].id], barycenters[nodes[p[2]].id])
        THEN Difference(barycenters[nodes[p[1]].id], barycenters[nodes[p[2]].id])
        ELSE localeCompare(nodes[p[1]].name, nodes[p[2]].name)]

sortNodesInLayer(layerNodes, nodes, edges, prevLayerNodes) ==
    IF Len(layerNodes) <= 1 THEN layerNodes
    ELSE IF nodes[layerNodes[1]].layer = 0 THEN sort(layerNodes, CompareByName(layerNodes, nodes))
    ELSE sort(layerNodes,
              CompareByBarycenter(layerNodes, nodes,
                  Barycenters(layerNodes, nodes, edges, PrevPositions(prevLayerNodes, nodes))))

RECURSIVE SortLayers(_, _, _, _)
\* the layers in ascending order of their index, each sorted in place, so
\* that a layer finds the one before it already in its final order
SortLayers(sortedLayerKeys, layers, nodes, edges) ==
    IF sortedLayerKeys = <<>> THEN layers
    ELSE SortLayers(Tail(sortedLayerKeys),
                    [layers EXCEPT ![Head(sortedLayerKeys)] =
                        sortNodesInLayer(layers[Head(sortedLayerKeys)], nodes, edges,
                            IF Head(sortedLayerKeys) - 1 \in DOMAIN layers
                            THEN layers[Head(sortedLayerKeys) - 1] ELSE <<>>)],
                    nodes, edges)

RECURSIVE Ascending(_)
Ascending(S) == IF S = {} THEN <<>> ELSE <<MinOf(S)>> \o Ascending(S \ {MinOf(S)})

MaxNodesInLayer(layers) == MaxOf({0} \cup {Len(layers[l]) : l \in DOMAIN layers})

TotalWidth(cfg, layers) ==
    cfg.paddingX * 2 + (Cardinality(DOMAIN layers) - 1) * cfg.layerSpacing + cfg.nodeWidth

TotalHeight(cfg, layers) ==
    cfg.paddingY * 2 + (MaxNodesInLayer(layers) - 1) * cfg.nodeSpacing + cfg.nodeHeight

\* the index of node i in its layer's array, from 0
IndexInLayer(layerNodes, i) == (CHOOSE p \in DOMAIN layerNodes : layerNodes[p] = i) - 1

NodeX(cfg, layerIndex) == cfg.paddingX + layerIndex * cfg.layerSpacing

\* layerHeight and startY; the difference halved is a whole number, as
\* nodeSpacing is even
StartY(cfg, layers, layerNodes) ==
    cfg.paddingY +
        (TotalHeight(cfg, layers) - cfg.paddingY * 2
            - ((Len(layerNodes) - 1) * cfg.nodeSpacing + cfg.nodeHeight)) \div 2

NodeY(cfg, layers, layerNodes, i) ==
    StartY(cfg, layers, layerNodes) + IndexInLayer(layerNodes, i) * cfg.nodeSpacing

Placed(cfg, nodes, sorted) ==
    [layers |-> sorted,
     x |-> [i \in DOMAIN nodes |-> NodeX(cfg, nodes[i].layer)],
     y |-> [i \in DOMAIN nodes |-> NodeY(cfg, sorted, sorted[nodes[i].layer], i)],
     width |-> TotalWidth(cfg, sorted),
     height |-> MaxOf({TotalHeight(cfg, sorted), 200})]

LayoutOver(cfg, nodes, edges, layers) ==
    IF Cardinality(DOMAIN layers) = 0
    THEN [layers |-> layers, x |-> <<>>, y |-> <<>>, width |-> cfg.paddingX * 2, height |-> cfg.paddingY * 2]
    ELSE Placed(cfg, nodes, SortLayers(Ascending(DOMAIN layers), layers, nodes, edges))

calculateLayout(nodes, edges) == LayoutOver(DEFAULT_CONFIG, nodes, edges, groupNodesByLayer(nodes))

(***************************************************************************)
(* QueryHistoryService.  An entry is named by its id; generateId gives a   *)
(* fresh one at every call.  The arrays below are what addEntry and        *)
(* removeEntry hand to globalState.update.                                 *)
(***************************************************************************)
MAX_HISTORY_ITEMS == 100

unshift(history, newEntry) == <<newEntry>> \o history

TrimOldestKept(history) ==
    IF Len(history) > MAX_HISTORY_ITEMS
    THEN SubSeq(history, Len(history) - MAX_HISTORY_ITEMS + 1, Len(history)) ELSE history

\* history.length = MAX_HISTORY_ITEMS when the array is longer
Trim(history) ==
    IF Len(history) > MAX_HISTORY_ITEMS THEN SubSeq(history, 1, MAX_HISTORY_ITEMS) ELSE history

AddedTo(history, newEntry) == Trim(unshift(history, newEntry))

Filtered(history, id) ==
    LET Other(item) == item # id IN SelectSeq(history, Other)

\* a stored history of n entries, the most recent first
StoredHistory(n) == [i \in 1..n |-> n + 1 - i]

IdleCall ==
    [op |-> "", id |-> 0, history |-> <<>>, value |-> <<>>, applied |-> FALSE,
     pc |-> "idle", fired |-> 0, seen |-> <<>>]

(***************************************************************************)
(* One run of buildLineageGraph(sql): extractCtes, extractLineage, then    *)
(* the graph.  cstThrows tells whether the CST parser rejects the text;   *)
(* the legacy parser, when extractCtes reaches it, returns its tree or     *)
(* throws.                                                                 *)
(***************************************************************************)
VARIABLES sql, cstThrows, pc, ctes, basicLineage, nodes, edges, cteLayers, loopExit

\* what calculateLayout returned for the graph
VARIABLE layout

\* the history that globalState.get returns, the calls of the service, the
\* number of ids generated, and the calls in the order their updates took effect
VARIABLES store, calls, issued, applyLog

lineageVars == <<sql, cstThrows, pc, ctes, basicLineage, nodes, edges, cteLayers, loopExit>>

historyVars == <<store, calls, issued, applyLog>>

vars == <<lineageVars, layout, historyVars>>

NoLayout == [layers |-> EmptyMap, x |-> <<>>, y |-> <<>>, width |-> 0, height |-> 0]

\* no layout computed and the history service not in use
Elsewhere ==
    /\ layout = NoLayout
    /\ store = <<>>
    /\ calls = [k \in 1..MaxCalls |-> IdleCall]
    /\ issued = 0
    /\ applyLog = <<>>

Init ==
    /\ sql \in Statements
    /\ cstThrows \in BOOLEAN
    /\ pc = "start"
    /\ ctes = <<>>
    /\ basicLineage = [sources |-> <<>>, targets |-> <<>>]
    /\ nodes = <<>>
    /\ edges = <<>>
    /\ cteLayers = EmptyMap
    /\ loopExit = <<EmptyMap, 0>>
    /\ Elsewhere

ExtractCtes ==
    /\ pc = "start"
    /\ ctes' = extractCtes(sql, ~cstThrows)
    /\ pc' = "ctes"
    /\ UNCHANGED <<sql, cstThrows, basicLineage, nodes, edges, cteLayers, loopExit, layout, historyVars>>

\* parse(sql) of the legacy parser throws: nothing on the way up catches it
LegacyParserThrows ==
    /\ pc = "start"
    /\ CallsLegacyParser(sql, ~cstThrows)
    /\ pc' = "raised"
    /\ UNCHANGED <<sql, cstThrows, ctes, basicLineage, nodes, edges, cteLayers, loopExit, layout, historyVars>>

ExtractLineage ==
    /\ pc = "ctes"
    /\ basicLineage' = extractLineage(sql, ~cstThrows)
    /\ pc' = "lineage"
    /\ UNCHANGED <<sql, cstThrows, ctes, nodes, edges, cteLayers, loopExit, layout, historyVars>>

Return(graph) ==
    /\ nodes' = graph.nodes
    /\ edges' = graph.edges

BuildGraph ==
    /\ pc = "lineage"
    /\ Return(buildLineageGraph(SqlText(sql), ctes, basicLineage))
    /\ cteLayers' = calculateCteLayers(ctes)
    /\ loopExit' = LoopExit(ctes, NamesOf(ctes))
    /\ pc' = "done"
    /\ UNCHANGED <<sql, cstThrows, ctes, basicLineage, layout, historyVars>>

Next == ExtractCtes \/ LegacyParserThrows \/ ExtractLineage \/ BuildGraph

Spec == Init /\ [][Next]_vars

\* the same run over the statements with chains of CTEs
InitChains ==
    /\ sql \in ChainStatements
    /\ cstThrows \in BOOLEAN
    /\ pc = "start"
    /\ ctes = <<>>
    /\ basicLineage = [sources |-> <<>>, targets |-> <<>>]
    /\ nodes = <<>>
    /\ edges = <<>>
    /\ cteLayers = EmptyMap
    /\ loopExit = <<EmptyMap, 0>>
    /\ Elsewhere

SpecChains == InitChains /\ [][Next]_vars

\* the same run over the scripts of writing statements
InitWrites ==
    /\ sql \in WriteStatements
    /\ cstThrows \in BOOLEAN
    /\ pc = "start"
    /\ ctes = <<>>
    /\ basicLineage = [sources |-> <<>>, targets |-> <<>>]
    /\ nodes = <<>>
    /\ edges = <<>>
    /\ cteLayers = EmptyMap
    /\ loopExit = <<EmptyMap, 0>>
    /\ Elsewhere

SpecWrites == InitWrites /\ [][Next]_vars

\* the same run over the statements with qualified names
InitQualified ==
    /\ sql \in QualifiedStatements
    /\ cstThrows \in BOOLEAN
    /\ pc = "start"
    /\ ctes = <<>>
    /\ basicLineage = [sources |-> <<>>, targets |-> <<>>]
    /\ nodes = <<>>
    /\ edges = <<>>
    /\ cteLayers = EmptyMap
    /\ loopExit = <<EmptyMap, 0>>
    /\ Elsewhere

SpecQualified == InitQualified /\ [][Next]_vars

\* showLineagePanel: the returned graph is laid out for the panel
CalculateLayout ==
    /\ pc = "done"
    /\ layout' = calculateLayout(nodes, edges)
    /\ pc' = "shown"
    /\ UNCHANGED <<sql, cstThrows, ctes, basicLineage, nodes, edges, cteLayers, loopExit, historyVars>>

NextLayout == Next \/ CalculateLayout

\* the run and the layout over the statements with two tables
InitLayout ==
    /\ sql \in LayoutStatements
    /\ cstThrows \in BOOLEAN
    /\ pc = "start"
    /\ ctes = <<>>
    /\ basicLineage = [sources |-> <<>>, targets |-> <<>>]
    /\ nodes = <<>>
    /\ edges = <<>>
    /\ cteLayers = EmptyMap
    /\ loopExit = <<EmptyMap, 0>>
    /\ Elsewhere

SpecLayout == InitLayout /\ [][NextLayout]_vars

(***************************************************************************)
(* The calls of QueryHistoryService.  A call runs up to its await in one   *)
(* step, which ends with the call of globalState.update; the promise       *)
(* resolves in a later step, and the rest of the call (the event) runs in  *)
(* a third.  Calls may overlap.  globalState is a vscode.Memento, whose    *)
(* code is not part of the repository: when get starts to return the value *)
(* handed to update, at the call or only when the promise resolves, is     *)
(* left open.                                                              *)
(***************************************************************************)
InitHistory ==
    /\ sql = [ctes |-> <<>>, mainFrom |-> <<>>, writes |-> <<>>, withFirst |-> FALSE, where |-> <<>>]
    /\ cstThrows = FALSE
    /\ pc = "start"
    /\ ctes = <<>>
    /\ basicLineage = [sources |-> <<>>, targets |-> <<>>]
    /\ nodes = <<>>
    /\ edges = <<>>
    /\ cteLayers = EmptyMap
    /\ loopExit = <<EmptyMap, 0>>
    /\ layout = NoLayout
    /\ \E n \in {0, 1, MAX_HISTORY_ITEMS - 1, MAX_HISTORY_ITEMS} :
        /\ store = StoredHistory(n)
        /\ issued = n
    /\ calls = [k \in 1..MaxCalls |-> IdleCall]
    /\ applyLog = <<>>

\* the calls are numbered in the order they start
MayStart(k) ==
    /\ calls[k].pc = "idle"
    /\ \A j \in 1..MaxCalls : j < k => calls[j].pc # "idle"

\* await this.globalState.update(STORAGE_KEY, value), up to the await
Update(k, op, id, history, value, atCall) ==
    /\ calls' = [calls EXCEPT ![k] = [op |-> op, id |-> id, history |-> history, value |-> value,
                                      applied |-> atCall, pc |-> "awaiting", fired |-> 0, seen |-> <<>>]]
    /\ store' = IF atCall THEN value ELSE store
    /\ applyLog' = IF atCall THEN Append(applyLog, k) ELSE applyLog

AddEntry(k) ==
    /\ MayStart(k)
    /\ \E atCall \in BOOLEAN :
        Update(k, "add", issued + 1, store, AddedTo(store, issued + 1), atCall)
    /\ issued' = issued + 1
    /\ UNCHANGED <<lineageVars, layout>>

\* the ids a caller may hand in: the first and the last of the stored
\* entries, an id generated by a call, and one that no entry has
RemovableIds == {0} \cup {store[i] : i \in DOMAIN store \cap {1, Len(store)}}
                    \cup {calls[j].id : j \in {i \in 1..MaxCalls : calls[i].op = "add"}}

RemoveEntry(k) ==
    /\ MayStart(k)
    /\ \E id \in RemovableIds, atCall \in BOOLEAN :
        Update(k, "remove", id, store, Filtered(store, id), atCall)
    /\ UNCHANGED <<lineageVars, layout, issued>>

ClearHistory(k) ==
    /\ MayStart(k)
    /\ \E atCall \in BOOLEAN : Update(k, "clear", 0, <<>>, <<>>, atCall)
    /\ UNCHANGED <<lineageVars, layout, issued>>

\* the promise of update resolves: by now the value is what get returns
UpdateResolves(k) ==
    /\ calls[k].pc = "awaiting"
    /\ calls' = [calls EXCEPT ![k].pc = "resumed", ![k].applied = TRUE]
    /\ store' = IF calls[k].applied THEN store ELSE calls[k].value
    /\ applyLog' = IF calls[k].applied THEN applyLog ELSE Append(applyLog, k)
    /\ UNCHANGED <<lineageVars, layout, issued>>

\* this.onDidChangeEmitter.fire(): the listener runs and reads getHistory()
Fire(k) ==
    /\ calls[k].pc = "resumed"
    /\ calls' = [calls EXCEPT ![k].pc = "done", ![k].fired = @ + 1, ![k].seen = store]
    /\ UNCHANGED <<lineageVars, layout, store, issued, applyLog>>

NextHistory ==
    \E k \in 1..MaxCalls :
        AddEntry(k) \/ RemoveEntry(k) \/ ClearHistory(k) \/ UpdateResolves(k) \/ Fire(k)

SpecHistory == InitHistory /\ [][NextHistory]_vars

(***************************************************************************)
(* Properties of the returned graph.                                       *)
(***************************************************************************)
Returned == pc = "done"

NodesOfKind(kind) == {i \in DOMAIN nodes : nodes[i].nodeType = kind}

\* the positions of the nodes an edge end names
NodesWithId(id) == {i \in DOMAIN nodes : nodes[i].id = id}

DistinctCteNames == \A i, j \in DOMAIN ctes : toLowerCase(ctes[i].name) = toLowerCase(ctes[j].name) => i = j

\* the CTE names a CTE name refers to, over every definition of that name
RefsOfName(n) ==
    UNION {CteRefs(ctes[i], NamesOf(ctes)) : i \in {j \in DOMAIN ctes : toLowerCase(ctes[j].name) = n}}

RECURSIVE ReachedIn(_, _)
\* the names reached from the names of S in 1 .. k + 1 reference steps
ReachedIn(S, k) ==
    LET next == UNION {RefsOfName(n) : n \in S}
    IN IF k = 0 THEN next ELSE next \cup ReachedIn(next, k - 1)

Reaches(n) == ReachedIn({n}, Len(ctes))

OnCycle(n) == n \in Reaches(n)

\* n lies on a reference cycle or depends, directly or transitively, on a name that does
ReachesCycle(n) == OnCycle(n) \/ \E m \in Reaches(n) : OnCycle(m)

\* C1: no name (compared case-insensitively) is the fullName of both a SOURCE
\* node and a TARGET node of the returned graph.
C1_SourceTargetDisjoint ==
    Returned => \A i \in NodesOfKind("SOURCE"), j \in NodesOfKind("TARGET") :
                    toLowerCase(nodes[i].fullName) # toLowerCase(nodes[j].fullName)

\* C2: the returned graph has no self-loop edge, an edge whose source node id
\* equals its target node id.
C2_NoSelfLoop == Returned => \A e \in DOMAIN edges : edges[e].source # edges[e].target

C4_TargetAfterCte ==
    Returned => \A e \in DOMAIN edges :
                    \A u \in NodesWithId(edges[e].source), v \in NodesWithId(edges[e].target) :
                        (nodes[u].nodeType = "CTE" /\ nodes[v].nodeType = "TARGET")
                            => nodes[v].layer > nodes[u].layer

\* an edge from a CTE node of layer 2 to a TARGET node has been built
C4_Witness ==
    /\ Returned
    /\ \E e \in DOMAIN edges :
          \E u \in NodesWithId(edges[e].source), v \in NodesWithId(edges[e].target) :
              nodes[u].nodeType = "CTE" /\ nodes[u].layer = 2 /\ nodes[v].nodeType = "TARGET"

\* C5: no two nodes of the returned graph share the same id, so that every
\* CTE name appears as exactly one CTE node.
C5_UniqueNodeIds == Returned => \A i, j \in DOMAIN nodes : nodes[i].id = nodes[j].id => i = j

\* C6: no two edges of the returned graph have the same pair of endpoints
\* (source node id, target node id).
C6_UniqueEdges ==
    Returned => \A i, j \in DOMAIN edges :
                    (edges[i].source = edges[j].source /\ edges[i].target = edges[j].target) => i = j

EdgeKinds == {<<"source", "cte">>, <<"cte", "cte">>, <<"cte", "target">>, <<"source", "target">>}

\* C7: every edge of the returned graph is SOURCE->CTE, CTE->CTE, CTE->TARGET
\* or SOURCE->TARGET; in particular no edge starts at a TARGET node.
C7_EdgeKinds ==
    Returned => \A e \in DOMAIN edges : <<edges[e].source[1], edges[e].target[1]>> \in EdgeKinds

\* C9: when the CST parser rejects the text, the returned graph has no nodes
\* and no edges.
C9_InvalidSqlEmptyGraph == (Returned /\ cstThrows) => (nodes = <<>> /\ edges = <<>>)

\* C10: buildLineageGraph never raises, whichever parser collaborator fails.
C10_NeverRaises == pc # "raised"

Acyclic == \A n \in NamesOf(ctes) : ~OnCycle(n)

\* C11: for CTEs with distinct names and acyclic references, calculateCteLayers
\* gives layer 1 to a CTE that references no CTE, and otherwise one more than
\* the greatest layer of the CTEs it references.
C11_LongestPath ==
    (Returned /\ DistinctCteNames /\ Acyclic) =>
        \A i \in DOMAIN ctes :
            /\ toLowerCase(ctes[i].name) \in DOMAIN cteLayers
            /\ CteRefs(ctes[i], NamesOf(ctes)) = {} => cteLayers[toLowerCase(ctes[i].name)] = 1
            /\ CteRefs(ctes[i], NamesOf(ctes)) # {} =>
                  /\ \A r \in CteRefs(ctes[i], NamesOf(ctes)) :
                        cteLayers[toLowerCase(ctes[i].name)] > cteLayers[r]
                  /\ \E r \in CteRefs(ctes[i], NamesOf(ctes)) :
                        cteLayers[toLowerCase(ctes[i].name)] = cteLayers[r] + 1

\* a chain of three CTEs, listed last first, has got the layers 3, 2, 1
C11_Witness ==
    /\ Returned /\ DistinctCteNames /\ Acyclic
    /\ Len(ctes) = 3
    /\ cteLayers[toLowerCase(ctes[1].name)] = 3
    /\ cteLayers[toLowerCase(ctes[2].name)] = 2
    /\ cteLayers[toLowerCase(ctes[3].name)] = 1
    /\ Len(ctes[1].referencedCtes) = 2

\* C12: calculateCteLayers comes to an end on every list of CTEs, also with
\* self-references and reference cycles: its while loop stops after at most
\* |ctes| + 1 rounds, every CTE name has a layer >= 1 in its result, and every
\* CTE the loop left without a layer has layer 1.
C12_TotalLayers ==
    Returned =>
        /\ loopExit[2] <= Len(ctes) + 1
        /\ DOMAIN cteLayers = NamesOf(ctes)
        /\ \A n \in NamesOf(ctes) : cteLayers[n] >= 1
        /\ \A n \in NamesOf(ctes) \ DOMAIN loopExit[1] : cteLayers[n] = 1

\* two CTEs that reference each other were left without a layer by the loop
\* and have layer 1 in the result
C12_Witness ==
    /\ Returned
    /\ \E n \in NamesOf(ctes) \ DOMAIN loopExit[1] :
          /\ OnCycle(n)
          /\ ~(n \in RefsOfName(n))
          /\ cteLayers[n] = 1

PriorityOrder == <<"INSERT", "CREATE TABLE", "CREATE VIEW", "MERGE", "UPDATE", "DELETE", "TRUNCATE">>

TypeRank == [type \in StatementTypes |-> CHOOSE i \in DOMAIN PriorityOrder : PriorityOrder[i] = type]

\* write i of the statement is seen before write j: its type comes earlier in
\* the priority order, or it has the same type and stands earlier in the text
SeenBefore(i, j) ==
    \/ TypeRank[sql.writes[i].statementType] < TypeRank[sql.writes[j].statementType]
    \/ sql.writes[i].statementType = sql.writes[j].statementType /\ i < j

\* the writes of the statement whose table has the lower-case name n
WritesOf(n) == {i \in DOMAIN sql.writes : toLowerCase(sql.writes[i].tableName) = n}

LineageExtracted == pc \in {"lineage", "done"}

\* C14: the targets returned by extractLineage hold one entry per target name
\* (compared case-insensitively), and the entry carries the name and the
\* statement type of the write seen first, where all writes of one type are
\* seen before any write of a type later in the priority order.
C14_FirstTagKept ==
    LineageExtracted =>
        /\ \A i, j \in DOMAIN basicLineage.targets :
              toLowerCase(basicLineage.targets[i].fullName) = toLowerCase(basicLineage.targets[j].fullName)
                  => i = j
        /\ \A w \in DOMAIN sql.writes :
              \E t \in DOMAIN basicLineage.targets :
                  toLowerCase(basicLineage.targets[t].fullName) = toLowerCase(sql.writes[w].tableName)
        /\ \A t \in DOMAIN basicLineage.targets :
              \E w \in WritesOf(toLowerCase(basicLineage.targets[t].fullName)) :
                  /\ basicLineage.targets[t].fullName = sql.writes[w].tableName
                  /\ basicLineage.targets[t].statementType = sql.writes[w].statementType
                  /\ \A v \in WritesOf(toLowerCase(basicLineage.targets[t].fullName)) \ {w} : SeenBefore(w, v)

\* DELETE FROM t stands before INSERT INTO T in the text, and the one target
\* returned is T with the tag INSERT
C14_Witness ==
    /\ LineageExtracted
    /\ Len(sql.writes) = 2
    /\ sql.writes[1] = [tableName |-> <<"t">>, statementType |-> "DELETE"]
    /\ sql.writes[2] = [tableName |-> <<"T">>, statementType |-> "INSERT"]
    /\ Len(basicLineage.targets) = 1
    /\ basicLineage.targets[1].fullName = <<"T">>
    /\ basicLineage.targets[1].statementType = "INSERT"

CtesExtracted == pc \in {"ctes", "lineage", "done"}

\* the lower-case CTE names of the whole statement
StatementCteNames == {toLowerCase(sql.ctes[j].name) : j \in DOMAIN sql.ctes}

\* C15: in every CteDefinition returned by extractCtes no name of sourceTables
\* equals, case-insensitively, a name of referencedCtes; every name the CTE's
\* body references is in one of the two lists, and it is in referencedCtes
\* exactly when it matches, case-insensitively, the name of a CTE defined
\* anywhere in the statement, before or after the referencing CTE.
C15_Classification ==
    CtesExtracted =>
        /\ Len(ctes) = Len(sql.ctes)
        /\ \A i \in DOMAIN ctes :
              /\ \A a \in Range(ctes[i].sourceTables), b \in Range(ctes[i].referencedCtes) :
                    toLowerCase(a) # toLowerCase(b)
              /\ Range(sql.ctes[i].body) \subseteq Range(ctes[i].sourceTables) \cup Range(ctes[i].referencedCtes)
              /\ \A n \in Range(ctes[i].sourceTables) \cup Range(ctes[i].referencedCtes) :
                    n \in Range(ctes[i].referencedCtes) <=> toLowerCase(n) \in StatementCteNames

\* the first CTE references a table and the CTE defined after it: the table
\* is a source table, the later CTE a referenced CTE
C15_Witness ==
    /\ CtesExtracted
    /\ Len(ctes) = 2
    /\ toLowerCase(ctes[1].name) # toLowerCase(ctes[2].name)
    /\ ctes[1].referencedCtes = <<ctes[2].name>>
    /\ Len(ctes[1].sourceTables) = 1
    /\ Len(sql.ctes[1].body) = 2

\* the main-body scan of the run finds no source reference
NoMainQuerySources ==
    findMainQuerySourceReferences(SqlText(sql), AllSourceTables(ctes, basicLineage), NamesOf(ctes)) = <<>>

HasEdge(from, to) == \E e \in DOMAIN edges : edges[e].source = from /\ edges[e].target = to

\* C16: when the statement has no CTEs, the graph has a TARGET node and the
\* main-body scan finds no source reference, the returned graph has an edge
\* from every source of the statement to every TARGET node.
C16_FallbackEdges ==
    (Returned /\ ctes = <<>> /\ NodesOfKind("TARGET") # {} /\ NoMainQuerySources) =>
        \A i \in DOMAIN basicLineage.sources : \A t \in NodesOfKind("TARGET") :
            HasEdge(<<"source", toLowerCase(basicLineage.sources[i].fullName)>>, nodes[t].id)

\* the scan starts at the ') SELECT ' of a string literal behind the FROM
\* clause and finds nothing; the source s is joined to the target all the same
C16_Witness ==
    /\ Returned /\ ctes = <<>> /\ NoMainQuerySources
    /\ Len(basicLineage.sources) = 1
    /\ \E t \in NodesOfKind("TARGET") :
          HasEdge(<<"source", toLowerCase(basicLineage.sources[1].fullName)>>, nodes[t].id)

C18_CteNameWins ==
    Returned => \A i \in NodesOfKind("SOURCE") \cup NodesOfKind("TARGET") :
                    ~(toLowerCase(nodes[i].fullName) \in NamesOf(ctes))

\* the statement writes to a table named like one of its CTEs and reads a
\* CTE by name; the graph has been returned with CTE nodes
C18_Witness ==
    /\ Returned
    /\ \E t \in DOMAIN basicLineage.targets : toLowerCase(basicLineage.targets[t].fullName) \in NamesOf(ctes)
    /\ \E i \in DOMAIN basicLineage.sources : toLowerCase(basicLineage.sources[i].fullName) \in NamesOf(ctes)
    /\ NodesOfKind("CTE") # {}

\* C19: the cap of |ctes| + 1 rounds never stops the loop of
\* calculateCteLayers early: when the loop stops, every CTE without a layer
\* references a CTE without a layer, and every name without a layer lies on
\* a reference cycle or depends, directly or transitively, on a name that does.
C19_CapNeverCuts ==
    Returned =>
        /\ \A i \in DOMAIN ctes :
              ~(toLowerCase(ctes[i].name) \in DOMAIN loopExit[1])
                  => ~(CteRefs(ctes[i], NamesOf(ctes)) \subseteq DOMAIN loopExit[1])
        /\ \A n \in NamesOf(ctes) \ DOMAIN loopExit[1] : ReachesCycle(n)

\* a chain of three CTEs listed last first took two rounds to resolve and a
\* third to see that nothing changes, one round less than the cap
C19_Witness ==
    /\ Returned
    /\ Len(ctes) = 3
    /\ loopExit[2] = 3
    /\ DOMAIN loopExit[1] = NamesOf(ctes)
    /\ loopExit[1][toLowerCase(ctes[1].name)] = 3

\* the lower-case names of the tables the main body of the statement reads
MainBodyTables == {toLowerCase(sql.mainFrom[i]) : i \in DOMAIN sql.mainFrom}

\* C20: every edge of the returned graph from a SOURCE node to a TARGET node
\* starts at a table that the main body of the statement references as a
\* table; a table referenced only inside CTE bodies has no such edge.
C20_DirectEdgesFromMainBody ==
    Returned => \A e \in DOMAIN edges :
                    (edges[e].source[1] = "source" /\ edges[e].target[1] = "target")
                        => edges[e].source[2] \in MainBodyTables

\* C22: in the LineageData returned by extractLineage no source has a
\* fullName equal, case-insensitively, to the fullName of a target.
C22_SourcesExcludeTargets ==
    LineageExtracted =>
        \A i \in DOMAIN basicLineage.sources, j \in DOMAIN basicLineage.targets :
            toLowerCase(basicLineage.sources[i].fullName) # toLowerCase(basicLineage.targets[j].fullName)

\* the parsed statement writes to t and reads t in its main query: t is
\* returned as a target and not as a source
C22_Witness ==
    /\ LineageExtracted /\ ~cstThrows
    /\ sql.mainFrom = << <<"t">> >>
    /\ Len(basicLineage.targets) = 1
    /\ basicLineage.targets[1].fullName = <<"t">>
    /\ \A i \in DOMAIN basicLineage.sources : toLowerCase(basicLineage.sources[i].fullName) # <<"t">>

\* C24: the source id and the target id of every edge of the returned graph
\* are ids of nodes of the graph.
C24_EdgeEndsAreNodes ==
    Returned => \A e \in DOMAIN edges :
                    NodesWithId(edges[e].source) # {} /\ NodesWithId(edges[e].target) # {}

\* a graph with a source, a CTE and a target and at least three edges
C24_Witness ==
    /\ Returned
    /\ Len(edges) >= 3
    /\ \E e \in DOMAIN edges : edges[e].source[1] = "cte" /\ edges[e].target[1] = "target"
    /\ \E e \in DOMAIN edges : edges[e].source[1] = "source"

\* C25: in the returned graph every SOURCE node has layer 0 and is the target
\* of no edge, and every CTE node and every TARGET node has a layer >= 1.
C25_LayerOfKind ==
    Returned => \A i \in DOMAIN nodes :
        /\ nodes[i].nodeType = "SOURCE" =>
              nodes[i].layer = 0 /\ \A e \in DOMAIN edges : edges[e].target # nodes[i].id
        /\ nodes[i].nodeType \in {"CTE", "TARGET"} => nodes[i].layer >= 1

\* a SOURCE node with an outgoing edge next to a CTE node and a TARGET node
C25_Witness ==
    /\ Returned
    /\ \E i \in NodesOfKind("SOURCE") : \E e \in DOMAIN edges : edges[e].source = nodes[i].id
    /\ NodesOfKind("CTE") # {}
    /\ NodesOfKind("TARGET") # {}

\* C27: the layers of the CTE and TARGET nodes of the returned graph have no
\* gap: for every CTE or TARGET node of layer L >= 2 there is a CTE node of
\* layer L - 1.
C27_ContiguousLayers ==
    Returned => \A i \in NodesOfKind("CTE") \cup NodesOfKind("TARGET") :
                    nodes[i].layer >= 2 => \E c \in NodesOfKind("CTE") : nodes[c].layer = nodes[i].layer - 1

\* a TARGET node of layer 3 with CTE nodes of layer 2 and a SOURCE node
C27_Witness ==
    /\ Returned
    /\ \E t \in NodesOfKind("TARGET") : nodes[t].layer = 3
    /\ \E c \in NodesOfKind("CTE") : nodes[c].layer = 2
    /\ NodesOfKind("SOURCE") # {}

\* the ways of listing n definitions in another order
Orderings(n) == {p \in [1..n -> 1..n] : \A i, j \in 1..n : p[i] = p[j] => i = j}

\* C26: for CTEs with distinct names the result of calculateCteLayers is the
\* same for every order in which the same definitions are listed.
C26_OrderIndependent ==
    (Returned /\ DistinctCteNames) =>
        \A p \in Orderings(Len(ctes)) :
            calculateCteLayers([i \in 1..Len(ctes) |-> ctes[p[i]]]) = cteLayers

\* three CTEs listed as top, bottom, middle of a chain: the middle one gets
\* its layer in the same round as, and before, nothing that needs it
C26_Witness ==
    /\ Returned /\ DistinctCteNames
    /\ Len(ctes) = 3
    /\ cteLayers[toLowerCase(ctes[1].name)] = 3
    /\ cteLayers[toLowerCase(ctes[2].name)] = 1
    /\ cteLayers[toLowerCase(ctes[3].name)] = 2
    /\ loopExit[2] = 3

(***************************************************************************)
(* Properties of the layout.                                               *)
(***************************************************************************)
Shown == pc = "shown"

\* the layers above 0 that sortNodesInLayer orders by barycenter
SortedLayers == {l \in DOMAIN layout.layers : l > 0 /\ Len(layout.layers[l]) >= 2}

PrevLayerOf(l) == IF l - 1 \in DOMAIN layout.layers THEN layout.layers[l - 1] ELSE <<>>

IncomingOf(i) == {e \in DOMAIN edges : edges[e].target = nodes[i].id}

\* the places, from 0, that the node with this id has in the layer before l
PlacesIn(l, id) == {p - 1 : p \in {q \in DOMAIN PrevLayerOf(l) : nodes[PrevLayerOf(l)[q]].id = id}}

\* the incoming edges of node i that come from the layer before l
FromPrevOf(l, i) == {e \in IncomingOf(i) : PlacesIn(l, edges[e].source) # {}}

RECURSIVE SumOfPlaces(_, _)
SumOfPlaces(l, E) ==
    IF E = {} THEN 0
    ELSE LET e == CHOOSE x \in E : TRUE
         IN MaxOf(PlacesIn(l, edges[e].source)) + SumOfPlaces(l, E \ {e})

\* the mean place of a before that of b, or the same mean and the name of a
\* not after that of b; a node without an edge from the layer before is last
InOrder(l, a, b) ==
    LET ea == FromPrevOf(l, a)
        eb == FromPrevOf(l, b)
        ca == Cardinality(ea)
        cb == Cardinality(eb)
        sa == SumOfPlaces(l, ea)
        sb == SumOfPlaces(l, eb)
        names == LocaleIndex(nodes[a].name) <= LocaleIndex(nodes[b].name)
    IN IF ca = 0 THEN cb = 0 /\ names
       ELSE IF cb = 0 THEN TRUE
       ELSE sa * cb < sb * ca \/ (sa * cb = sb * ca /\ names)

NoSelfReference ==
    \A i \in DOMAIN ctes : \A j \in DOMAIN ctes[i].referencedCtes :
        toLowerCase(ctes[i].referencedCtes[j]) # toLowerCase(ctes[i].name)

\* C21 (as stated): in a layer above 0 that is ordered by barycenter, a node
\* has the barycenter infinity exactly when no edge of the graph comes into it
\* (stated for the statements whose CTE names are distinct and whose CTEs do
\* not refer to themselves)
C21_InfinityIffNoIncoming ==
    (Shown /\ DistinctCteNames /\ NoSelfReference) =>
        \A l \in SortedLayers : \A p \in DOMAIN layout.layers[l] :
            (Barycenter(nodes[layout.layers[l][p]].id, edges, PrevPositions(PrevLayerOf(l), nodes)) = Infinity)
                <=> (IncomingOf(layout.layers[l][p]) = {})

\* C21 (amended): every layer above 0 is in ascending order of the mean place,
\* in the final order of the layer before, of the sources of the incoming
\* edges that come from that layer; a node is last, as with an infinite mean,
\* exactly when no edge comes into it from the layer before; nodes with the
\* same mean are in the alphabetical order of their display names
C21_BarycenterOrder ==
    Shown =>
        \A l \in SortedLayers : \A p, q \in DOMAIN layout.layers[l] :
            p < q => InOrder(l, layout.layers[l][p], layout.layers[l][q])

\* two CTEs of layer 1 stand against the alphabet because of their sources,
\* and the sources are both in layer 0
C21_Witness ==
    /\ Shown
    /\ 1 \in SortedLayers
    /\ 0 \in DOMAIN layout.layers
    /\ Len(layout.layers[0]) = 2
    /\ \E i \in DOMAIN nodes : Cardinality(FromPrevOf(1, i)) = 2
    /\ \E p, q \in DOMAIN layout.layers[1] :
        /\ p < q
        /\ LocaleIndex(nodes[layout.layers[1][q]].name) < LocaleIndex(nodes[layout.layers[1][p]].name)
        /\ FromPrevOf(1, layout.layers[1][p]) # {}
        /\ FromPrevOf(1, layout.layers[1][q]) # {}

\* C28: after calculateLayout the rectangle of every node lies inside the
\* returned canvas: 0 <= x, x + nodeWidth <= width, 0 <= y, y + nodeHeight <= height
C28_NodesInsideCanvas ==
    Shown =>
        \A i \in DOMAIN nodes :
            /\ 0 <= layout.x[i]
            /\ layout.x[i] + DEFAULT_CONFIG.nodeWidth <= layout.width
            /\ 0 <= layout.y[i]
            /\ layout.y[i] + DEFAULT_CONFIG.nodeHeight <= layout.height

(***************************************************************************)
(* Properties of the query history.                                        *)
(***************************************************************************)
Started == {k \in 1..MaxCalls : calls[k].pc # "idle"}

Completed == {k \in 1..MaxCalls : calls[k].pc = "done"}

Adds == {k \in Started : calls[k].op = "add"}

Entries(h) == {h[i] : i \in DOMAIN h}

\* ids are generated in ascending order: the most recent entry has the greatest
MostRecentFirst(h) == \A i \in DOMAIN h : i < Len(h) => h[i] > h[i + 1]

\* the call whose update took effect last
LastApplied == applyLog[Len(applyLog)]

\* C23: the stored history holds at most 100 entries, the most recent first;
\* addEntry stores the history it read with the new entry at index 0, and
\* when that is more than 100 entries it is the oldest, at the end, that go
C23_CappedMostRecentFirst ==
    /\ Len(store) <= 100
    /\ MostRecentFirst(store)
    /\ applyLog # <<>> => store = calls[LastApplied].value
    /\ \A k \in Adds :
        /\ calls[k].value[1] = calls[k].id
        /\ Len(calls[k].history) < 100 => calls[k].value = <<calls[k].id>> \o calls[k].history
        /\ Len(calls[k].history) >= 100 =>
            calls[k].value = <<calls[k].id>> \o SubSeq(calls[k].history, 1, 99)

\* addEntry has stored a history of 100 entries, the new one first, from
\* which the oldest entry of the 100 it had read is gone
C23_Witness ==
    \E k \in Adds \cap Completed :
        /\ Len(calls[k].history) = 100
        /\ LastApplied = k
        /\ Len(store) = 100
        /\ store[1] = calls[k].id
        /\ calls[k].history[100] \notin Entries(store)

\* the calls whose update took effect after that of call k
AppliedAfter(k) ==
    {applyLog[i] : i \in {j \in DOMAIN applyLog : \E m \in DOMAIN applyLog : applyLog[m] = k /\ m < j}}

\* the stored history shows what call k did: the entry of addEntry is there
\* unless a later removeEntry of it or a later clearHistory took effect, the
\* entry of removeEntry is not there, and after clearHistory nothing is there
\* but the entries of later calls
ShowsChange(k) ==
    /\ calls[k].op = "add" =>
        \/ calls[k].id \in Entries(store)
        \/ \E j \in AppliedAfter(k) :
            calls[j].op = "clear" \/ (calls[j].op = "remove" /\ calls[j].id = calls[k].id)
    /\ calls[k].op = "remove" => calls[k].id \notin Entries(store)
    /\ calls[k].op = "clear" =>
        Entries(store) \subseteq {calls[j].id : j \in {i \in Adds : i > k}}

FiredOnceAfterUpdate ==
    \A k \in 1..MaxCalls :
        /\ calls[k].fired = (IF calls[k].pc = "done" THEN 1 ELSE 0)
        /\ calls[k].fired = 1 => calls[k].applied

\* the event never fires before the update has taken effect, and once per call
C29_FiredOnceAfterUpdate == FiredOnceAfterUpdate

====
